---- MODULE Spec2Model ----
(***************************************************************************)
(* Workspace-scoped semantic memory engine (LocalSemanticMemory).          *)
(*                                                                         *)
(* The store is three persistent structures shared by every process that   *)
(* opens the workspace: the vector index (ChromaDB collection), the        *)
(* keyword index (SQLite FTS5 table memories_fts) and the content-hash     *)
(* ledger (SQLite table memory_hashes), plus the advisory file lock.       *)
(* Each process runs one operation at a time; an operation is a sequence   *)
(* of steps, one per access to the shared store, so that the steps of two  *)
(* processes interleave exactly where the code lets them.                  *)
(*                                                                         *)
(* Texts are sequences of one-character strings.  Scores and similarities  *)
(* are integers: similarity and confidence in hundredths, RRF weights in   *)
(* tenths, RRF scores in millionths.                                       *)
(***************************************************************************)
EXTENDS Integers, Sequences, FiniteSets, TLC

VARIABLES
    coll,      \* vector index: id -> [text, emb, meta]      (self.collection)
    fts,       \* keyword index: sequence of rows [doc_id, text] (memories_fts)
    hashes,    \* content-hash ledger: rows [doc_id, content_hash] (memory_hashes)
    lock,      \* holder of the workspace file lock, or NoProc (self.lock)
    now,       \* the wall clock (datetime.now())
    nextId,    \* number of ids generated so far
    pc,        \* per process: the step it is at
    loc,       \* per process: the local variables of the running operation
    ret        \* per process: the last completed call and what it returned

vars == <<coll, fts, hashes, lock, now, nextId, pc, loc, ret>>
store == <<coll, fts, hashes>>

\* ------------------------------------------------------------------ bounds

MaxIds == 2      \* ids generated in a run
MaxTime == 1     \* clock ticks
MaxAccess == 1   \* a search starts while no record was returned more often
MaxDocs == 3     \* records the two result lists given to _rrf_fuse draw from
MaxCands == 11   \* candidates given to _llm_rerank

Procs == {"p1", "p2"}
NoProc == "none"
NoId == 0

\* ------------------------------------------------------------------- texts

Space == " "
Lower(c) == IF c = "A" THEN "a" ELSE IF c = "B" THEN "b" ELSE c

\* str.lower()
LowerSeq(s) == [i \in 1..Len(s) |-> Lower(s[i])]

RECURSIVE LStrip(_)
LStrip(s) == IF s # <<>> /\ Head(s) = Space THEN LStrip(Tail(s)) ELSE s

RECURSIVE RStrip(_)
RStrip(s) ==
    IF s # <<>> /\ s[Len(s)] = Space THEN RStrip(SubSeq(s, 1, Len(s) - 1)) ELSE s

\* str.strip()
Strip(s) == RStrip(LStrip(s))

\* hashlib.sha256(text.strip().lower().encode()).hexdigest(): the digest is
\* represented by the normalised text it is computed from.
ContentHash(text) == LowerSeq(Strip(text))

\* \w of the regular expressions
IsWordChar(c) == c \notin {Space, ",", ":", "|"}

\* The maximal runs of word characters of s, in order.
RECURSIVE Runs(_, _)
Runs(s, cur) ==
    IF s = <<>> THEN (IF cur = <<>> THEN <<>> ELSE <<cur>>)
    ELSE IF IsWordChar(Head(s)) THEN Runs(Tail(s), Append(cur, Head(s)))
    ELSE (IF cur = <<>> THEN <<>> ELSE <<cur>>) \o Runs(Tail(s), <<>>)

\* re.findall(r'\b\w{n,}\b', s.lower()) as a set
Tokens(s, n) ==
    LET r == Runs(LowerSeq(s), <<>>)
    IN  {r[i] : i \in {j \in 1..Len(r) : Len(r[j]) >= n}}

\* ------------------------------------------------- embedding provider

\* ollama embeddings(model="nomic-embed-text", prompt=text): a deterministic
\* function of the text.  An embedding is a point on a line and the cosine
\* distance of two embeddings, in hundredths, is their separation: texts
\* that differ in case, blanks or punctuation lie close together.
CharWeight(c) ==
    CASE c = "a" -> 10 [] c = "A" -> 11
      [] c = "b" -> 20 [] c = "B" -> 21
      [] c = "c" -> 27 [] c = "e" -> 32
      [] c = "d" -> 90
      [] c = Space -> 1 [] c = "," -> 5
      [] OTHER -> 40

RECURSIVE SumWeights(_)
SumWeights(s) == IF s = <<>> THEN 0 ELSE CharWeight(Head(s)) + SumWeights(Tail(s))

_generate_embedding(text) == SumWeights(text)

Abs(x) == IF x < 0 THEN -x ELSE x
Min(a, b) == IF a < b THEN a ELSE b

\* cosine distance of the collection (hnsw:space = cosine), in hundredths
CosDist(e1, e2) == Min(Abs(e1 - e2), 200)

\* --------------------------------------------------------------- helpers

\* dict.get(k, d)
Get(m, k, d) == IF k \in DOMAIN m THEN m[k] ELSE d

EmptyMeta == [k \in {} |-> 0]

MinOf(S) == CHOOSE x \in S : \A y \in S : x <= y

\* The elements of a set of numbers, ascending.
RECURSIVE SetToSeq(_)
SetToSeq(S) ==
    IF S = {} THEN <<>> ELSE <<MinOf(S)>> \o SetToSeq(S \ {MinOf(S)})

\* x placed after every element of the sorted s whose key is <= its own.
RECURSIVE InsertByKey(_, _)
InsertByKey(x, s) ==
    IF s = <<>> THEN <<x>>
    ELSE IF Head(s).key <= x.key THEN <<Head(s)>> \o InsertByKey(x, Tail(s))
    ELSE <<x>> \o s

\* Stable sort of a sequence of records by ascending key.
RECURSIVE StableSort(_)
StableSort(s) ==
    IF s = <<>> THEN <<>>
    ELSE InsertByKey(s[Len(s)], StableSort(SubSeq(s, 1, Len(s) - 1)))

\* Mutant: nothing is cut.
TakeAll(s, n) == s

Take(s, n) == SubSeq(s, 1, Min(n, Len(s)))

SeqRange(s) == {s[i] : i \in 1..Len(s)}

\* ---------------------------------------------------------- vector index

Ids == DOMAIN coll

\* collection.count()
Count == Cardinality(Ids)

\* collection.add(ids=[id], ...): a record under a new id.
CollAdd(c, id, text, emb, meta) ==
    IF id \in DOMAIN c THEN c
    ELSE (id :> [text |-> text, emb |-> emb, meta |-> meta]) @@ c

\* Mutant: the metadata passed replaces the record's metadata.
CollUpdateReplace(c, id, meta) ==
    IF id \in DOMAIN c THEN [c EXCEPT ![id].meta = meta] ELSE c

\* collection.update(ids=[id], metadatas=[meta]): the keys passed are set on
\* the record, the keys not passed keep their value; an unknown id is ignored.
CollUpdate(c, id, meta) ==
    IF id \in DOMAIN c THEN [c EXCEPT ![id].meta = meta @@ @] ELSE c

\* collection.delete(ids=ids)
CollDelete(c, ids) == [i \in DOMAIN c \ ids |-> c[i]]

\* collection.query(query_embeddings=[emb], n_results=k, where={"category": cat}):
\* the ids of the k nearest records, nearest first (equal distances in
\* insertion order); cat = "" is no filter.
CollQuery(c, emb, k, cat) ==
    LET cand == SetToSeq({i \in DOMAIN c : cat = "" \/ Get(c[i].meta, "category", "") = cat})
        keyed == [j \in 1..Len(cand) |->
                    [id |-> cand[j], key |-> CosDist(c[cand[j]].emb, emb)]]
    IN  Take(StableSort(keyed), k)

\* --------------------------------------------- keyword index and ledger

\* _fts_insert: one row in memories_fts
FtsInsertRow(f, id, text) == Append(f, [doc_id |-> id, text |-> text])

\* _fts_insert: INSERT OR IGNORE INTO memory_hashes (doc_id is the primary key)
HashInsert(h, id, text) ==
    IF \E j \in 1..Len(h) : h[j].doc_id = id THEN h
    ELSE Append(h, [doc_id |-> id, content_hash |-> ContentHash(text)])

\* _fts_delete: DELETE FROM memories_fts WHERE doc_id IN ids
FtsDeleteRows(f, ids) == SelectSeq(f, LAMBDA r : r.doc_id \notin ids)

\* Mutant: the ledger rows are left behind.
HashDeleteNone(h, ids) == h

\* _fts_delete: DELETE FROM memory_hashes WHERE doc_id IN ids
HashDelete(h, ids) == SelectSeq(h, LAMBDA r : r.doc_id \notin ids)

\* ------------------------------------------------------- deduplication

\* Mutant: the lookup hashes the text as given, not trimmed and lowercased.
ExactDuplicateRaw(text) ==
    LET hit == {j \in 1..Len(hashes) : hashes[j].content_hash = text}
    IN  IF hit = {} THEN NoId ELSE hashes[MinOf(hit)].doc_id

\* _check_exact_duplicate: SELECT doc_id FROM memory_hashes WHERE
\* content_hash = ? LIMIT 1 (the first matching row), or NoId.
_check_exact_duplicate(text) ==
    LET hit == {j \in 1..Len(hashes) : hashes[j].content_hash = ContentHash(text)}
    IN  IF hit = {} THEN NoId ELSE hashes[MinOf(hit)].doc_id

NearThreshold == 95
WarnThreshold == 88
NearNeighbours == 3

\* similarity = 1 - dist, in hundredths
Similarity(dist) == 100 - dist

\* Mutant: the warning band is absorbed too.
NearDuplicateFromWarn(embedding) ==
    IF Count = 0 THEN NoId
    ELSE LET res == CollQuery(coll, embedding, NearNeighbours, "")
             hit == {j \in 1..Len(res) : Similarity(res[j].key) >= WarnThreshold}
         IN  IF hit = {} THEN NoId ELSE res[MinOf(hit)].id

\* _check_near_duplicate: the first of the 3 nearest neighbours whose
\* similarity reaches the threshold, or NoId.
_check_near_duplicate(embedding) ==
    IF Count = 0 THEN NoId
    ELSE LET res == CollQuery(coll, embedding, NearNeighbours, "")
             hit == {j \in 1..Len(res) : Similarity(res[j].key) >= NearThreshold}
         IN  IF hit = {} THEN NoId ELSE res[MinOf(hit)].id

\* _check_near_duplicate: whether the warning of the band [0.88, 0.95) is printed
NearWarning(embedding) ==
    /\ Count # 0
    /\ _check_near_duplicate(embedding) = NoId
    /\ \E r \in SeqRange(CollQuery(coll, embedding, NearNeighbours, "")) :
            Similarity(r.key) >= WarnThreshold

\* -------------------------------------------------------------- search

RrfK == 60

\* _INTENT_PATTERNS / _DEFAULT_WEIGHTS: (vector_weight, fts_weight) in tenths.
\* Of each pattern's alternation the words the model's queries can hold.
W_who == <<"w", "h", "o">>
W_when == <<"w", "h", "e", "n">>
W_likes == <<"l", "i", "k", "e", "s">>

\* _classify_intent: the first pattern that matches wins.
_classify_intent(query) ==
    LET words == Tokens(query, 1)
    IN  IF W_who \in words THEN [intent |-> "WHO", vw |-> 5, fw |-> 5]
        ELSE IF W_when \in words THEN [intent |-> "WHEN", vw |-> 4, fw |-> 6]
        ELSE IF W_likes \in words THEN [intent |-> "PREFERENCE", vw |-> 8, fw |-> 2]
        ELSE [intent |-> "DEFAULT", vw |-> 7, fw |-> 3]

\* _fts_query: the query's words of 2 characters or more, OR-ed; the rows that
\* hold one of them, best bm25 first (more of the words is better, equal
\* scores in row order), at most n.
_fts_query(query, n) ==
    LET tokens == Tokens(query, 2)
        hits == SelectSeq(fts, LAMBDA r : Tokens(r.text, 1) \cap tokens # {})
        keyed == [j \in 1..Len(hits) |->
                    [id |-> hits[j].doc_id,
                     key |-> 0 - Cardinality(Tokens(hits[j].text, 1) \cap tokens)]]
    IN  IF tokens = {} THEN <<>> ELSE Take(StableSort(keyed), n)

\* Mutant: an id missing from a list ranks right after the list's last.
RankInShort(res, id) ==
    LET at == {j \in 1..Len(res) : res[j].id = id}
    IN  IF at = {} THEN Len(res)
        ELSE (CHOOSE j \in at : \A k \in at : k <= j) - 1

\* The rank (from 0) of id in a result list: as the dict built by enumerate,
\* the last place it holds; absent, the list's length + 100.
RankIn(res, id) ==
    LET at == {j \in 1..Len(res) : res[j].id = id}
    IN  IF at = {} THEN Len(res) + 100
        ELSE (CHOOSE j \in at : \A k \in at : k <= j) - 1

\* a / b rounded to the nearest integer
RoundDiv(a, b) == (2 * a + b) \div (2 * b)

\* _rrf_fuse: round(vector_weight / (k + vr) + fts_weight / (k + fr), 6), in
\* millionths (the weights are tenths)
RrfScore(vw, fw, vr, fr) ==
    RoundDiv(100000 * (vw * (RrfK + fr) + fw * (RrfK + vr)),
             (RrfK + vr) * (RrfK + fr))

\* The orders in which a set can be enumerated.
Orderings(S) ==
    {f \in [1..Cardinality(S) -> S] : \A i, j \in 1..Cardinality(S) : f[i] = f[j] => i = j}

\* _rrf_fuse, before its last line: the scored candidates sorted by score,
\* highest first.  `order` is the iteration order of the set all_ids; a
\* candidate found by the keyword index alone is fetched from the collection
\* and dropped when it is not there.
RrfScored(vector_results, fts_results, vw, fw, order) ==
    LET vids == {vector_results[j].id : j \in 1..Len(vector_results)}
        known == SelectSeq(order, LAMBDA id : id \in vids \/ id \in DOMAIN coll)
        scored == [j \in 1..Len(known) |->
                     [id |-> known[j],
                      rrf_score |-> RrfScore(vw, fw, RankIn(vector_results, known[j]),
                                             RankIn(fts_results, known[j])),
                      key |-> 0 - RrfScore(vw, fw, RankIn(vector_results, known[j]),
                                           RankIn(fts_results, known[j]))]]
    IN  StableSort(scored)

\* _rrf_fuse: return scored[:n_results]
_rrf_fuse(vector_results, fts_results, vw, fw, n_results, order) ==
    Take(RrfScored(vector_results, fts_results, vw, fw, order), n_results)

\* search(), no keyword match: the vector results with 1 / (60 + rank)
VectorOnly(vector_results) ==
    [j \in 1..Len(vector_results) |->
        [id |-> vector_results[j].id,
         rrf_score |-> RoundDiv(1000000, RrfK + (j - 1)),
         key |-> 0 - RoundDiv(1000000, RrfK + (j - 1))]]

\* _is_retracted
_is_retracted(meta) == Get(meta, "retracted", FALSE)

\* search(): n_results * (2 if include_retracted else 3)
Oversample(n_results, include_retracted) ==
    n_results * (IF include_retracted THEN 2 ELSE 3)

top_n == 10

\* _llm_rerank: round(0.5 * rrf_score + 0.5 * rating / 5, 6), in millionths
RerankScore(rrf_score, rating) == RoundDiv(rrf_score + 200000 * rating, 2)

\* A rating that stands for an integer beyond the range of a float.
HugeRating == 1000000

\* _llm_rerank: `ratings[i] / 5.0` raises OverflowError
Overflows(rating) == rating >= HugeRating

\* _llm_rerank: one candidate of the loop that blends, its rating and blended
\* score set on the candidate itself
Blended(cand, rating) ==
    [llm_rating |-> rating, rerank_score |-> RerankScore(cand.rrf_score, rating)] @@ cand

\* Mutant: the rated candidates are left in the order they came in.
RerankedUnsorted(scored) == scored

\* _llm_rerank: to_rerank.sort(key=rerank_score, reverse=True)
Reranked(scored) ==
    LET keyed == [j \in 1..Len(scored) |->
                    [key |-> 0 - scored[j].rerank_score] @@ scored[j]]
    IN  StableSort(keyed)

\* _llm_rerank: `if len(ratings) != len(to_rerank)`
CountMismatch(ratings, to_rerank) == Len(ratings) # Len(to_rerank)

\* _llm_rerank(candidates) given the answer of the model: no model detected
\* ("no_model"), generate() raising ("raises"), no list of digits in the
\* response or one that json.loads rejects ("unparseable"), or a list of
\* integers ("list").  Without a list of one rating for each of the first
\* top_n candidates the candidates come back as they are.  Else the loop sets
\* the rating and the blended score on one candidate after the other; a rating
\* too large for a float raises there, and the candidates come back in their
\* order, those before it changed.  Without that the rated ones are sorted by
\* the blended score, highest first, and the others appended.
_llm_rerank(candidates, answer) ==
    IF candidates = <<>> \/ answer.kind # "list" THEN candidates
    ELSE LET to_rerank == Take(candidates, top_n)
             ratings == answer.ratings
             bad == {j \in 1..Len(to_rerank) : Overflows(ratings[j])}
         IN  IF CountMismatch(ratings, to_rerank) THEN candidates
             ELSE IF bad # {}
             THEN [j \in 1..Len(candidates) |->
                     IF j < MinOf(bad) THEN Blended(candidates[j], ratings[j])
                     ELSE candidates[j]]
             ELSE Reranked([j \in 1..Len(to_rerank) |-> Blended(to_rerank[j], ratings[j])])
                    \o SubSeq(candidates, top_n + 1, Len(candidates))

\* The answers the reranking model can give for these candidates: a failure,
\* or a list of ratings, of the length asked for or not.
Ratings(candidates, rerank, K) ==
    IF rerank /\ candidates # <<>>
    THEN {[kind |-> f] : f \in Get(K, "failures", {"raises"})}
         \cup {[kind |-> "list", ratings |-> r] :
                 r \in UNION {[1..n -> Get(K, "ratings", {0})] :
                                n \in {Min(Len(candidates), top_n) + d :
                                          d \in Get(K, "miscounts", {0})} \cap Nat}}
    ELSE {[kind |-> "off"]}

\* Mutant: nothing is filtered.
FilterNone(memories, include_retracted) == memories

\* search(): the retraction filter, or the flag on the entries kept
FilterRetracted(memories, include_retracted) ==
    IF ~include_retracted
    THEN SelectSeq(memories, LAMBDA m : ~_is_retracted(coll[m.id].meta))
    ELSE memories

\* One entry of search()'s output.
Entry(m, include_retracted) ==
    [id |-> m.id, rrf_score |-> m.rrf_score,
     retracted |-> include_retracted /\ _is_retracted(coll[m.id].meta)]

\* Mutant: the access is not counted.
TouchMetaNoCount(meta, t) == [last_accessed |-> t] @@ meta

\* _touch_results: the metadata written back for one record
TouchMeta(meta, t) ==
    [last_accessed |-> t, access_count |-> Get(meta, "access_count", 0) + 1] @@ meta

\* ------------------------------------------------------------- processes

NoCall == [op |-> "none"]

\* The call a process has completed.
Returned(p, call) == [ret EXCEPT ![p] = call]

Idle(p) == pc[p] = "idle"

At(p, l) == [pc EXCEPT ![p] = l]

\* Mutant: the duplicate checks never run.
DedupDisabled(force) == FALSE

\* Mutant: the duplicate checks run for a forced add too.
DedupAlways(force) == TRUE

\* add(): `if not force` guarding the two duplicate checks
DedupEnabled(force) == ~force

\* add(): the metadata of the new record (the provenance fields timestamp,
\* workspace and agent_id left out)
NewMeta(category, text, metadata) ==
    metadata @@
    [category |-> category, confidence |-> 100, access_count |-> 0,
     last_accessed |-> now, pinned |-> FALSE, content_hash |-> ContentHash(text)]

\* What the running add() returns when it returns value.
AddCall(p, value, inserted) ==
    [op |-> loc[p].op, text |-> loc[p].text, category |-> loc[p].category,
     force |-> loc[p].force, value |-> value, inserted |-> inserted,
     embedded |-> TRUE, warned |-> Get(loc[p], "warned", FALSE), count |-> Count,
     attempts |-> Get(loc[p], "attempt", 0) + 1, waits |-> Get(loc[p], "waits", <<>>)]

\* add() from the embedding on: _check_near_duplicate (a hit returns the
\* neighbour's id), then _generate_id and the metadata.  l is loc[p] as add()
\* was called.
Embedded(p, l, K) ==
    LET embedding == _generate_embedding(l.text)
        near_dup == IF DedupEnabled(l.force)
                    THEN _check_near_duplicate(embedding) ELSE NoId
    IN  IF near_dup # NoId
        THEN /\ ret' = Returned(p, [op |-> l.op, text |-> l.text,
                         category |-> l.category, force |-> l.force,
                         value |-> near_dup, inserted |-> FALSE, embedded |-> TRUE,
                         warned |-> FALSE, count |-> Count])
             /\ pc' = At(p, "idle")
             /\ loc' = [loc EXCEPT ![p] = NoCall]
             /\ nextId' = nextId
        ELSE /\ nextId < K.maxIds
             /\ nextId' = nextId + 1
             /\ loc' = [loc EXCEPT ![p] = l @@
                           [memory_id |-> nextId + 1, embedding |-> embedding,
                            warned |-> DedupEnabled(l.force) /\ NearWarning(embedding),
                            meta |-> NewMeta(l.category, l.text, l.metadata)]]
             /\ pc' = At(p, "add_lock")
             /\ ret' = ret

\* add(text, category, force=...) is called: _check_exact_duplicate, a hit
\* returning the existing id; a forced add starts at the embedding.
StartAdd(p, K) ==
    /\ Idle(p)
    /\ \E text \in K.texts, category \in K.cats, force \in K.forces,
          metadata \in Get(K, "metas", {EmptyMeta}) :
          LET l == [op |-> "add", text |-> text, category |-> category,
                    metadata |-> metadata, force |-> force]
              existing_id == _check_exact_duplicate(text)
          IN  IF DedupEnabled(force)
              THEN IF existing_id # NoId
                   THEN /\ ret' = Returned(p, [op |-> "add", text |-> text,
                                    category |-> category, force |-> force,
                                    value |-> existing_id, inserted |-> FALSE,
                                    embedded |-> FALSE, warned |-> FALSE,
                                    count |-> Count])
                        /\ UNCHANGED <<pc, loc, nextId>>
                   ELSE /\ nextId < K.maxIds
                        /\ loc' = [loc EXCEPT ![p] = l]
                        /\ pc' = At(p, "add_near")
                        /\ UNCHANGED <<ret, nextId>>
              ELSE Embedded(p, l, K)
    /\ UNCHANGED <<coll, fts, hashes, lock, now>>

\* add(): the embedding and the near-duplicate check of a non-forced add
AddNear(p, K) ==
    /\ pc[p] = "add_near"
    /\ Embedded(p, loc[p], K)
    /\ UNCHANGED <<coll, fts, hashes, lock, now>>

\* add(): `with self.lock`, collection.add
AddLock(p) ==
    /\ pc[p] = "add_lock"
    /\ lock = NoProc
    /\ lock' = p
    /\ coll' = CollAdd(coll, loc[p].memory_id, loc[p].text, loc[p].embedding, loc[p].meta)
    /\ pc' = At(p, "add_fts")
    /\ UNCHANGED <<fts, hashes, now, nextId, loc, ret>>

\* add(): _fts_insert, the lock released, the new id returned: to the caller
\* of add() or lesson(), or to correct(), which goes on.
AddFts(p) ==
    /\ pc[p] = "add_fts"
    /\ lock = p
    /\ fts' = FtsInsertRow(fts, loc[p].memory_id, loc[p].text)
    /\ hashes' = HashInsert(hashes, loc[p].memory_id, loc[p].text)
    /\ lock' = NoProc
    /\ IF loc[p].op = "correct"
       THEN /\ pc' = At(p, "cor_update")
            /\ UNCHANGED <<ret, loc>>
       ELSE /\ ret' = Returned(p, AddCall(p, loc[p].memory_id, TRUE))
            /\ pc' = At(p, "idle")
            /\ loc' = [loc EXCEPT ![p] = NoCall]
    /\ UNCHANGED <<coll, now, nextId>>

max_retries == 3

\* Mutant: the same wait before every retry.
WaitTimeFlat(attempt) == 1

\* add(): wait_time = 0.1 * (2 ** attempt), in tenths of a second
WaitTime(attempt) == 2 ^ attempt

\* add(): `except Exception` of the retry loop.  Before the last attempt the
\* process sleeps wait_time and the loop goes round again; on the last
\* attempt the exception is raised to the caller.  timeout tells that the
\* exception is the lock's Timeout.
AddFailed(p, timeout) ==
    LET attempt == Get(loc[p], "attempt", 0)
        timeouts == Get(loc[p], "timeouts", 0) + (IF timeout THEN 1 ELSE 0)
        waits == Get(loc[p], "waits", <<>>)
    IN  IF attempt < max_retries - 1
        THEN /\ loc' = [loc EXCEPT ![p] =
                           [attempt |-> attempt + 1, timeouts |-> timeouts,
                            waits |-> Append(waits, WaitTime(attempt))] @@ @]
             /\ pc' = At(p, "add_lock")
             /\ ret' = ret
        ELSE /\ ret' = Returned(p, [op |-> loc[p].op, text |-> loc[p].text,
                          category |-> loc[p].category, force |-> loc[p].force,
                          value |-> NoId, memory_id |-> loc[p].memory_id,
                          inserted |-> FALSE, embedded |-> TRUE,
                          warned |-> loc[p].warned, count |-> Count,
                          timeouts |-> timeouts,
                          attempts |-> attempt + 1, waits |-> waits,
                          error |-> IF timeout THEN "Timeout" ELSE "Exception"])
             /\ pc' = At(p, "idle")
             /\ loc' = [loc EXCEPT ![p] = NoCall]

\* add(): `with self.lock` does not get the lock within its timeout, another
\* process holding it, and raises Timeout inside the try.
AddLockTimeout(p) ==
    /\ pc[p] = "add_lock"
    /\ lock \notin {NoProc, p}
    /\ AddFailed(p, TRUE)
    /\ UNCHANGED <<coll, fts, hashes, lock, now, nextId>>

\* add(): collection.add raises under the lock; nothing is written and the
\* lock is released.
AddCollFail(p) ==
    /\ pc[p] = "add_lock"
    /\ lock = NoProc
    /\ AddFailed(p, FALSE)
    /\ UNCHANGED <<coll, fts, hashes, lock, now, nextId>>

\* add(): _fts_insert raises after collection.add has written the record;
\* the SQLite transaction is not committed and the lock is released.
AddFtsFail(p) ==
    /\ pc[p] = "add_fts"
    /\ lock = p
    /\ lock' = NoProc
    /\ AddFailed(p, FALSE)
    /\ UNCHANGED <<coll, fts, hashes, now, nextId>>

L_PREFIX == <<"L", ":", " ">>
M_PREFIX == <<" ", "|", " ", "M", ":", " ">>

\* Mutant: the mistake is left out of the text.
StructuredNoMistake(text, mistake) == L_PREFIX \o text

\* lesson(): the structured text (the prefixes "LESSON: " and " | MISTAKE: "
\* written L_PREFIX and M_PREFIX)
Structured(text, mistake) ==
    IF mistake # <<>> THEN L_PREFIX \o text \o M_PREFIX \o mistake
    ELSE L_PREFIX \o text

\* lesson(text, mistake, category): the structured text, stored by a forced add
StartLesson(p, K) ==
    /\ Idle(p)
    /\ \E text \in K.lessons, mistake \in K.mistakes, category \in K.cats :
          LET structured == Structured(text, mistake)
              meta == IF mistake # <<>>
                      THEN [is_lesson |-> TRUE, mistake |-> mistake]
                      ELSE [is_lesson |-> TRUE]
          IN  Embedded(p, [op |-> "lesson", text |-> structured,
                           category |-> category, metadata |-> meta, force |-> TRUE,
                           lesson |-> text, lesson_mistake |-> mistake], K)
    /\ UNCHANGED <<coll, fts, hashes, lock, now>>

\* Mutant: the copy is not marked.
RetractedMetaUnmarked(meta) == meta

\* correct(): original_meta['retracted'] = True on the copy of the metadata
RetractedMeta(meta) == [retracted |-> TRUE] @@ meta

\* Mutant: no id is found.
NotFoundAlways(c, memory_id) == TRUE

\* correct(): `if not original['ids']` after collection.get(ids=[memory_id])
NotFound(c, memory_id) == memory_id \notin DOMAIN c

\* correct(memory_id, corrected_text): the original is fetched (NotFound when
\* it is not there), its metadata copied and marked retracted, and add() is
\* called, forced, with the original's category.
StartCorrect(p, K) ==
    /\ Idle(p)
    /\ \E memory_id \in 1..K.maxIds, corrected_text \in K.corrections :
          IF NotFound(coll, memory_id)
          THEN /\ ret' = Returned(p, [op |-> "correct", memory_id |-> memory_id,
                           text |-> corrected_text, value |-> NoId,
                           error |-> "NotFound"])
               /\ UNCHANGED <<pc, loc, nextId>>
          ELSE LET original_meta == RetractedMeta(coll[memory_id].meta)
               IN  Embedded(p, [op |-> "correct", text |-> corrected_text,
                        category |-> Get(original_meta, "category", "general"),
                        metadata |-> [corrects_id |-> memory_id], force |-> TRUE,
                        target |-> memory_id, original_meta |-> original_meta], K)
    /\ UNCHANGED <<coll, fts, hashes, lock, now>>

\* correct(): replaced_by set on the copy, which is written back under the lock
CorrectUpdate(p) ==
    /\ pc[p] = "cor_update"
    /\ lock = NoProc
    /\ coll' = CollUpdate(coll, loc[p].target,
                   [replaced_by |-> loc[p].memory_id] @@ loc[p].original_meta)
    /\ ret' = Returned(p, [op |-> "correct", memory_id |-> loc[p].target,
                  text |-> loc[p].text, category |-> loc[p].category,
                  value |-> loc[p].memory_id, error |-> "none"])
    /\ pc' = At(p, "idle")
    /\ loc' = [loc EXCEPT ![p] = NoCall]
    /\ UNCHANGED <<fts, hashes, lock, now, nextId>>

\* search(query, n_results, category, include_retracted, rerank): both
\* indexes are queried and fused, the retracted records filtered or flagged,
\* the list trimmed, reranked when asked and trimmed again; with nothing to
\* return the call returns at once, else
\* _touch_results follows.
StartSearch(p, K) ==
    /\ Idle(p)
    /\ \A i \in Ids : Get(coll[i].meta, "access_count", 0) < MaxAccess
    /\ \E query \in K.queries, n_results \in K.ns, category \in K.filters,
          include_retracted \in K.incs, rerank \in Get(K, "reranks", {FALSE}) :
          LET w == _classify_intent(query)
              oversample == Oversample(n_results, include_retracted)
              vector_results == CollQuery(coll, _generate_embedding(query),
                                          oversample, category)
              fts_results == _fts_query(query, oversample)
              all_ids == {vector_results[j].id : j \in 1..Len(vector_results)}
                           \cup {fts_results[j].id : j \in 1..Len(fts_results)}
          IN  \E order \in Orderings(all_ids) :
                LET candidates == IF fts_results # <<>>
                                  THEN RrfScored(vector_results, fts_results,
                                                 w.vw, w.fw, order)
                                  ELSE VectorOnly(vector_results)
                    fused == IF fts_results # <<>>
                             THEN _rrf_fuse(vector_results, fts_results,
                                            w.vw, w.fw, n_results, order)
                             ELSE Take(VectorOnly(vector_results), n_results)
                    kept == Take(FilterRetracted(fused, include_retracted), n_results)
                IN  \E ratings \in Ratings(kept, rerank, K) :
                LET ranked == IF rerank /\ kept # <<>>
                              THEN Take(_llm_rerank(kept, ratings), n_results)
                              ELSE kept
                    memories == [j \in 1..Len(ranked) |-> Entry(ranked[j], include_retracted)]
                    call == [op |-> "search", query |-> query, n_results |-> n_results,
                             rerank |-> rerank,
                             category |-> category,
                             include_retracted |-> include_retracted,
                             candidates |-> [j \in 1..Len(candidates) |-> candidates[j].id],
                             fused |-> [j \in 1..Len(fused) |-> fused[j].id],
                             value |-> memories]
                IN  IF memories = <<>>
                    THEN /\ ret' = Returned(p, call)
                         /\ UNCHANGED <<pc, loc>>
                    ELSE /\ loc' = [loc EXCEPT ![p] = call]
                         /\ pc' = At(p, "touch_get")
                         /\ ret' = ret
    /\ UNCHANGED <<coll, fts, hashes, lock, now, nextId>>

\* _touch_results: now, and collection.get(ids) of the records returned
TouchGet(p) ==
    /\ pc[p] = "touch_get"
    /\ LET ids == {loc[p].value[j].id : j \in 1..Len(loc[p].value)} \cap Ids
       IN  IF ids = {}
           THEN /\ ret' = Returned(p, loc[p])
                /\ pc' = At(p, "idle")
                /\ loc' = [loc EXCEPT ![p] = NoCall]
           ELSE /\ loc' = [loc EXCEPT ![p] = loc[p] @@
                             [touch_now |-> now,
                              existing |-> [i \in ids |-> coll[i].meta],
                              todo |-> SetToSeq(ids)]]
                /\ pc' = At(p, "touch_upd")
                /\ ret' = ret
    /\ UNCHANGED <<coll, fts, hashes, lock, now, nextId>>

\* The call record of a search without the locals of _touch_results.
SearchCall(l) ==
    [k \in DOMAIN l \ {"touch_now", "existing", "todo"} |-> l[k]]

\* _touch_results: collection.update of the next record fetched; after the
\* last one search() returns.
TouchUpdate(p) ==
    /\ pc[p] = "touch_upd"
    /\ LET doc_id == Head(loc[p].todo)
       IN  /\ coll' = CollUpdate(coll, doc_id,
                          TouchMeta(loc[p].existing[doc_id], loc[p].touch_now))
           /\ IF Tail(loc[p].todo) = <<>>
              THEN /\ ret' = Returned(p, SearchCall(loc[p]))
                   /\ pc' = At(p, "idle")
                   /\ loc' = [loc EXCEPT ![p] = NoCall]
              ELSE /\ loc' = [loc EXCEPT ![p].todo = Tail(@)]
                   /\ UNCHANGED <<pc, ret>>
    /\ UNCHANGED <<fts, hashes, lock, now, nextId>>

DecayStep == 10

\* decay(dry_run, threshold, age_days): the cutoff and the snapshot
\* collection.get(); an empty collection returns at once, its summary
\* without total_evaluated.
StartDecay(p, K) ==
    /\ Idle(p)
    /\ \E dry_run \in K.dry, threshold \in K.thresholds, age_days \in K.ages :
          LET call == [op |-> "decay", dry_run |-> dry_run, threshold |-> threshold,
                       age_days |-> age_days, decayed |-> 0, deleted |-> 0,
                       protected |-> 0, skipped |-> 0, total_evaluated |-> Count]
          IN  IF Count = 0
              THEN /\ ret' = Returned(p, [k \in DOMAIN call \ {"total_evaluated"}
                                              |-> call[k]])
                   /\ UNCHANGED <<pc, loc>>
              ELSE /\ loc' = [loc EXCEPT ![p] = call @@
                                [cutoff |-> now - age_days, all_data |-> coll,
                                 todo |-> SetToSeq(Ids), delete_ids |-> {}]]
                   /\ pc' = At(p, "decay_loop")
                   /\ ret' = ret
    /\ UNCHANGED <<coll, fts, hashes, lock, now, nextId>>

\* The summary a decay returns, without the locals of the pass.
DecayCall(l) ==
    [k \in DOMAIN l \ {"cutoff", "all_data", "todo", "delete_ids"} |-> l[k]]

\* Mutant: the confidence is not lowered.
NewConfidenceSame(confidence) == confidence

\* decay(): new_confidence = round(confidence - 0.10, 2)
NewConfidence(confidence) == confidence - DecayStep

\* Mutant: no record counts as pinned.
PinnedNever(meta) == FALSE

\* decay(): pinned = meta.get('pinned', False)
Pinned(meta) == Get(meta, "pinned", FALSE)

\* Mutant: a dry run writes too.
AppliesAlways(dry_run) == TRUE

\* decay(): the else branches of `if dry_run`, where the store is written
Applies(dry_run) == ~dry_run

\* decay(): the loop body for the next record of the snapshot
DecayRecord(l, doc_id) ==
    LET meta == l.all_data[doc_id].meta
        confidence == Get(meta, "confidence", 100)
        pinned == Pinned(meta)
        last_accessed == Get(meta, "last_accessed", 0)
        new_confidence == NewConfidence(confidence)
    IN  IF pinned THEN [kind |-> "protected"]
        ELSE IF last_accessed > l.cutoff THEN [kind |-> "skipped"]
        ELSE IF new_confidence < l.threshold THEN [kind |-> "deleted"]
        ELSE [kind |-> "decayed",
              meta |-> [confidence |-> new_confidence] @@ meta]

\* decay(): one iteration of the loop; after the last, the batch delete if
\* there is something to delete, else the summary is returned.
DecayLoop(p) ==
    /\ pc[p] = "decay_loop"
    /\ LET l == loc[p]
           doc_id == Head(l.todo)
           r == DecayRecord(l, doc_id)
           l2 == [l EXCEPT !.todo = Tail(@),
                    !.decayed = @ + (IF r.kind = "decayed" THEN 1 ELSE 0),
                    !.deleted = @ + (IF r.kind = "deleted" THEN 1 ELSE 0),
                    !.protected = @ + (IF r.kind = "protected" THEN 1 ELSE 0),
                    !.skipped = @ + (IF r.kind = "skipped" THEN 1 ELSE 0),
                    !.delete_ids = IF r.kind = "deleted" /\ Applies(l.dry_run)
                                   THEN @ \cup {doc_id} ELSE @]
       IN  /\ coll' = IF r.kind = "decayed" /\ Applies(l.dry_run)
                      THEN CollUpdate(coll, doc_id, r.meta) ELSE coll
           /\ IF l2.todo # <<>>
              THEN /\ loc' = [loc EXCEPT ![p] = l2]
                   /\ UNCHANGED <<pc, ret>>
              ELSE IF l2.delete_ids # {}
              THEN /\ loc' = [loc EXCEPT ![p] = l2]
                   /\ pc' = At(p, "decay_del")
                   /\ ret' = ret
              ELSE /\ ret' = Returned(p, DecayCall(l2))
                   /\ pc' = At(p, "idle")
                   /\ loc' = [loc EXCEPT ![p] = NoCall]
    /\ UNCHANGED <<fts, hashes, lock, now, nextId>>

\* decay(): `with self.lock`, collection.delete(ids=delete_ids)
DecayDelete(p) ==
    /\ pc[p] = "decay_del"
    /\ lock = NoProc
    /\ lock' = p
    /\ coll' = CollDelete(coll, loc[p].delete_ids)
    /\ pc' = At(p, "decay_fts")
    /\ UNCHANGED <<fts, hashes, now, nextId, loc, ret>>

\* decay(): _fts_delete(delete_ids), the lock released, the summary returned
DecayFts(p) ==
    /\ pc[p] = "decay_fts"
    /\ lock = p
    /\ fts' = FtsDeleteRows(fts, loc[p].delete_ids)
    /\ hashes' = HashDelete(hashes, loc[p].delete_ids)
    /\ lock' = NoProc
    /\ ret' = Returned(p, DecayCall(loc[p]))
    /\ pc' = At(p, "idle")
    /\ loc' = [loc EXCEPT ![p] = NoCall]
    /\ UNCHANGED <<coll, now, nextId>>

\* delete(memory_id): collection.delete
StartDelete(p, K) ==
    /\ Idle(p)
    /\ \E memory_id \in 1..nextId :
          /\ coll' = CollDelete(coll, {memory_id})
          /\ loc' = [loc EXCEPT ![p] = [op |-> "delete", ids |-> {memory_id}]]
    /\ pc' = At(p, "del_fts")
    /\ UNCHANGED <<fts, hashes, lock, now, nextId, ret>>

\* clear_category(category): collection.get(where), nothing more when no
\* record is in the category
StartClear(p, K) ==
    /\ Idle(p)
    /\ \E category \in K.cats :
          LET ids == {i \in Ids : Get(coll[i].meta, "category", "") = category}
          IN  IF ids = {}
              THEN /\ ret' = Returned(p, [op |-> "clear_category", ids |-> {}])
                   /\ UNCHANGED <<pc, loc>>
              ELSE /\ loc' = [loc EXCEPT ![p] = [op |-> "clear_category", ids |-> ids]]
                   /\ pc' = At(p, "clr_del")
                   /\ ret' = ret
    /\ UNCHANGED <<coll, fts, hashes, lock, now, nextId>>

\* clear_category(): collection.delete(ids)
ClearDelete(p) ==
    /\ pc[p] = "clr_del"
    /\ coll' = CollDelete(coll, loc[p].ids)
    /\ pc' = At(p, "del_fts")
    /\ UNCHANGED <<fts, hashes, lock, now, nextId, loc, ret>>

\* delete() and clear_category(): _fts_delete(ids), and the call returns
DeleteFts(p) ==
    /\ pc[p] = "del_fts"
    /\ fts' = FtsDeleteRows(fts, loc[p].ids)
    /\ hashes' = HashDelete(hashes, loc[p].ids)
    /\ ret' = Returned(p, loc[p])
    /\ pc' = At(p, "idle")
    /\ loc' = [loc EXCEPT ![p] = NoCall]
    /\ UNCHANGED <<coll, lock, now, nextId>>

\* The clock advances.
Tick ==
    /\ now < MaxTime
    /\ now' = now + 1
    /\ UNCHANGED <<coll, fts, hashes, lock, nextId, pc, loc, ret>>

\* A new workspace: empty indexes, the lock free, every process idle.
Init ==
    /\ coll = <<>>
    /\ fts = <<>>
    /\ hashes = <<>>
    /\ lock = NoProc
    /\ now = 0
    /\ nextId = 0
    /\ pc = [p \in Procs |-> "idle"]
    /\ loc = [p \in Procs |-> NoCall]
    /\ ret = [p \in Procs |-> NoCall]

\* ---------------------------------------------------------------- inputs

Categories == {"general", "pref"}

T_ab == <<"a", "b">>
T_Ab == <<"A", "b", " ">>
T_abc == <<"a", "b", ",">>
T_ac == <<"a", "c">>
T_ae == <<"a", "e">>
T_d == <<"d">>

\* One process; add() and delete().
KAdd ==
    [maxIds |-> MaxIds, texts |-> {T_ab, T_Ab, T_abc, T_ae, T_d},
     cats |-> Categories, forces |-> BOOLEAN]

AddNext ==
    \/ Tick
    \/ StartAdd("p1", KAdd)
    \/ AddNear("p1", KAdd)
    \/ AddLock("p1")
    \/ AddFts("p1")
    \/ StartDelete("p1", KAdd)
    \/ DeleteFts("p1")

AddSpec == Init /\ [][AddNext]_vars

\* One process; add(), correct() and search().
KSearch ==
    [maxIds |-> MaxIds, texts |-> {T_ab, T_d}, cats |-> {"general"},
     forces |-> {FALSE}, corrections |-> {T_ac}, queries |-> {T_ab, T_d},
     ns |-> {1, 2}, filters |-> {"", "general"}, incs |-> BOOLEAN]

SearchNext ==
    \/ StartAdd("p1", KSearch)
    \/ AddNear("p1", KSearch)
    \/ AddLock("p1")
    \/ AddFts("p1")
    \/ StartCorrect("p1", KSearch)
    \/ CorrectUpdate("p1")
    \/ StartSearch("p1", KSearch)
    \/ TouchGet("p1")
    \/ TouchUpdate("p1")

SearchSpec == Init /\ [][SearchNext]_vars

\* One process; every operation that writes, and search().
KAll ==
    [maxIds |-> MaxIds, texts |-> {T_ab}, cats |-> {"general"},
     forces |-> {FALSE}, corrections |-> {T_ac}, lessons |-> {T_d},
     mistakes |-> {<<>>, T_ae}, queries |-> {T_ab}, ns |-> {1},
     filters |-> {""}, incs |-> {FALSE}, dry |-> BOOLEAN,
     thresholds |-> {50, 95}, ages |-> {0}]

AllNext ==
    \/ Tick
    \/ StartAdd("p1", KAll)
    \/ AddNear("p1", KAll)
    \/ AddLock("p1")
    \/ AddFts("p1")
    \/ StartLesson("p1", KAll)
    \/ StartCorrect("p1", KAll)
    \/ CorrectUpdate("p1")
    \/ StartSearch("p1", KAll)
    \/ TouchGet("p1")
    \/ TouchUpdate("p1")
    \/ StartDecay("p1", KAll)
    \/ DecayLoop("p1")
    \/ DecayDelete("p1")
    \/ DecayFts("p1")
    \/ StartDelete("p1", KAll)
    \/ StartClear("p1", KAll)
    \/ ClearDelete("p1")
    \/ DeleteFts("p1")

AllSpec == Init /\ [][AllNext]_vars

\* Two processes on one workspace, both calling non-forced add(); the first
\* also search() and decay(), the second delete() and clear_category().
KDedup ==
    [maxIds |-> MaxIds, texts |-> {T_ab, T_Ab}, cats |-> {"general"},
     forces |-> {FALSE}, queries |-> {T_ab}, ns |-> {1},
     filters |-> {""}, incs |-> {FALSE}, dry |-> {FALSE},
     thresholds |-> {95}, ages |-> {0}]

DedupNext ==
    \/ Tick
    \/ \E p \in Procs :
          \/ StartAdd(p, KDedup)
          \/ AddNear(p, KDedup)
          \/ AddLock(p)
          \/ AddFts(p)
    \/ StartSearch("p1", KDedup)
    \/ TouchGet("p1")
    \/ TouchUpdate("p1")
    \/ StartDecay("p1", KDedup)
    \/ DecayLoop("p1")
    \/ DecayDelete("p1")
    \/ DecayFts("p1")
    \/ StartDelete("p2", KDedup)
    \/ StartClear("p2", KDedup)
    \/ ClearDelete("p2")
    \/ DeleteFts("p2")

DedupSpec == Init /\ [][DedupNext]_vars

\* Two processes on one workspace: the first calls add() and correct(), the
\* second search().
KSpec ==
    [maxIds |-> MaxIds, texts |-> {T_ab}, cats |-> {"general"},
     forces |-> {FALSE}, corrections |-> {T_ac}, queries |-> {T_ab},
     ns |-> {2}, filters |-> {""}, incs |-> BOOLEAN]

Next ==
    \/ StartAdd("p1", KSpec)
    \/ AddNear("p1", KSpec)
    \/ AddLock("p1")
    \/ AddFts("p1")
    \/ StartCorrect("p1", KSpec)
    \/ CorrectUpdate("p1")
    \/ StartSearch("p2", KSpec)
    \/ TouchGet("p2")
    \/ TouchUpdate("p2")

Spec == Init /\ [][Next]_vars

\* One process; add() forced or not, lesson() and correct().
KForce ==
    [maxIds |-> MaxIds, texts |-> {T_ab, T_Ab}, cats |-> Categories,
     forces |-> BOOLEAN, corrections |-> {T_ab, T_ac}, lessons |-> {T_d},
     mistakes |-> {<<>>, T_ae}]

ForceNext ==
    \/ StartAdd("p1", KForce)
    \/ AddNear("p1", KForce)
    \/ AddLock("p1")
    \/ AddFts("p1")
    \/ StartLesson("p1", KForce)
    \/ StartCorrect("p1", KForce)
    \/ CorrectUpdate("p1")

ForceSpec == Init /\ [][ForceNext]_vars

\* Two processes on one workspace calling add(), whose writes and lock
\* acquisitions can fail.
KFail ==
    [maxIds |-> MaxIds, texts |-> {T_ab, T_d}, cats |-> {"general"},
     forces |-> {TRUE}]

FailNext ==
    \E p \in Procs :
        \/ StartAdd(p, KFail)
        \/ AddLock(p)
        \/ AddFts(p)
        \/ AddLockTimeout(p)
        \/ AddCollFail(p)
        \/ AddFtsFail(p)

FailSpec == Init /\ [][FailNext]_vars

\* One process; forced add(), with or without caller metadata, and decay().
KDecay ==
    [maxIds |-> MaxIds, texts |-> {T_ab}, cats |-> {"general"},
     forces |-> {TRUE},
     metas |-> {EmptyMeta, [pinned |-> TRUE, confidence |-> 20]},
     dry |-> BOOLEAN, thresholds |-> {15, 0 - 10}, ages |-> {0, 1}]

DecayNext ==
    \/ Tick
    \/ StartAdd("p1", KDecay)
    \/ AddLock("p1")
    \/ AddFts("p1")
    \/ StartDecay("p1", KDecay)
    \/ DecayLoop("p1")
    \/ DecayDelete("p1")
    \/ DecayFts("p1")

DecaySpec == Init /\ [][DecayNext]_vars

\* One process; forced add(), and search() with or without reranking.
KRank ==
    [maxIds |-> MaxIds, texts |-> {T_ab}, cats |-> {"general"},
     forces |-> {TRUE}, queries |-> {T_ab},
     ns |-> {1, 2}, filters |-> {""}, incs |-> BOOLEAN,
     reranks |-> BOOLEAN, ratings |-> {0, 5}]

RankNext ==
    \/ Tick
    \/ StartAdd("p1", KRank)
    \/ AddLock("p1")
    \/ AddFts("p1")
    \/ StartSearch("p1", KRank)
    \/ TouchGet("p1")
    \/ TouchUpdate("p1")

RankSpec == Init /\ [][RankNext]_vars

\* One process; forced add() in either category, and search() with or
\* without a category.
KCat ==
    [maxIds |-> MaxIds, texts |-> {T_ab, T_d}, cats |-> Categories,
     forces |-> {TRUE}, queries |-> {T_ab, T_d}, ns |-> {1, 2},
     filters |-> {""} \cup Categories, incs |-> {FALSE}]

CatNext ==
    \/ StartAdd("p1", KCat)
    \/ AddLock("p1")
    \/ AddFts("p1")
    \/ StartSearch("p1", KCat)
    \/ TouchGet("p1")
    \/ TouchUpdate("p1")

CatSpec == Init /\ [][CatNext]_vars

\* One process and a clock that stands still; every operation, one call
\* after the other, none failing.
KSeq ==
    [maxIds |-> MaxIds, texts |-> {T_ab, T_Ab}, cats |-> {"general"},
     forces |-> {FALSE}, corrections |-> {T_ac}, lessons |-> {T_d},
     mistakes |-> {<<>>}, queries |-> {T_ab}, ns |-> {1},
     filters |-> {""}, incs |-> {FALSE}, dry |-> {FALSE},
     thresholds |-> {95}, ages |-> {0}]

SeqNext ==
    \/ StartAdd("p1", KSeq)
    \/ AddNear("p1", KSeq)
    \/ AddLock("p1")
    \/ AddFts("p1")
    \/ StartLesson("p1", KSeq)
    \/ StartCorrect("p1", KSeq)
    \/ CorrectUpdate("p1")
    \/ StartSearch("p1", KSeq)
    \/ TouchGet("p1")
    \/ TouchUpdate("p1")
    \/ StartDecay("p1", KSeq)
    \/ DecayLoop("p1")
    \/ DecayDelete("p1")
    \/ DecayFts("p1")
    \/ StartDelete("p1", KSeq)
    \/ StartClear("p1", KSeq)
    \/ ClearDelete("p1")
    \/ DeleteFts("p1")

SeqSpec == Init /\ [][SeqNext]_vars

\* Two processes on one workspace: the first runs decay(), the second
\* forced add() and search().
KRace ==
    [maxIds |-> MaxIds, texts |-> {T_ab}, cats |-> {"general"},
     forces |-> {TRUE}, queries |-> {T_ab}, ns |-> {1},
     filters |-> {""}, incs |-> {FALSE}, dry |-> {FALSE},
     thresholds |-> {15, 95}, ages |-> {0}]

RaceNext ==
    \/ Tick
    \/ StartDecay("p1", KRace)
    \/ DecayLoop("p1")
    \/ DecayDelete("p1")
    \/ DecayFts("p1")
    \/ StartAdd("p2", KRace)
    \/ AddLock("p2")
    \/ AddFts("p2")
    \/ StartSearch("p2", KRace)
    \/ TouchGet("p2")
    \/ TouchUpdate("p2")

RaceSpec == Init /\ [][RaceNext]_vars

\* One process and a clock that stands still: forced add(), correct(),
\* default search() and decay() with the default threshold, every record
\* stale (age_days = 0).  A call that has started runs to its end, and decay
\* passes go on being run.
KEvict ==
    [maxIds |-> MaxIds, texts |-> {T_ab}, cats |-> {"general"},
     forces |-> {TRUE}, corrections |-> {T_ac}, queries |-> {T_ab}, ns |-> {1},
     filters |-> {""}, incs |-> {FALSE}, dry |-> {FALSE},
     thresholds |-> {15}, ages |-> {0}]

EvictNext ==
    \/ StartAdd("p1", KEvict)
    \/ AddLock("p1")
    \/ AddFts("p1")
    \/ StartCorrect("p1", KEvict)
    \/ CorrectUpdate("p1")
    \/ StartSearch("p1", KEvict)
    \/ TouchGet("p1")
    \/ TouchUpdate("p1")
    \/ StartDecay("p1", KEvict)
    \/ DecayLoop("p1")
    \/ DecayDelete("p1")
    \/ DecayFts("p1")

EvictSpec ==
    /\ Init /\ [][EvictNext]_vars
    /\ WF_vars(AddLock("p1")) /\ WF_vars(AddFts("p1"))
    /\ WF_vars(CorrectUpdate("p1"))
    /\ WF_vars(TouchGet("p1")) /\ WF_vars(TouchUpdate("p1"))
    /\ WF_vars(StartDecay("p1", KEvict)) /\ WF_vars(DecayLoop("p1"))
    /\ WF_vars(DecayDelete("p1")) /\ WF_vars(DecayFts("p1"))

\* ---- _rrf_fuse on its own

Docs == 1..MaxDocs

\* A record of the store as add() writes it.
DocRecord ==
    [text |-> T_d, emb |-> _generate_embedding(T_d),
     meta |-> [category |-> "general", confidence |-> 100, access_count |-> 0,
               last_accessed |-> 0, pinned |-> FALSE,
               content_hash |-> ContentHash(T_d)]]

\* The result lists over the ids of S: each id at most once, best first.
ResultLists(S) ==
    UNION {{[j \in 1..n |-> [id |-> f[j], key |-> j]] :
               f \in {g \in [1..n -> S] : \A i, j \in 1..n : g[i] = g[j] => i = j}} :
           n \in 0..Cardinality(S)}

\* The (vector_weight, fts_weight) pairs of the intent table used, in tenths.
FuseWeights == {[vw |-> 5, fw |-> 5], [vw |-> 7, fw |-> 3]}

\* Two runs of search(), each in its own process, are about to call _rrf_fuse
\* with the same arguments: the vector results come from the collection, the
\* keyword results (not empty) from the keyword index, which may still hold
\* the row of a record that a delete has already taken out of the collection.
FuseInit ==
    /\ \E present \in {Docs, Docs \ {MaxDocs}} :
          /\ coll = [i \in present |-> DocRecord]
          /\ \E vector_results \in ResultLists(present),
                fts_results \in ResultLists(Docs) \ {<<>>},
                w \in FuseWeights, n_results \in {MaxDocs - 1} :
                loc = [p \in Procs |->
                         [op |-> "fuse", vector_results |-> vector_results,
                          fts_results |-> fts_results, vw |-> w.vw, fw |-> w.fw,
                          n_results |-> n_results]]
    /\ fts = [j \in 1..MaxDocs |-> [doc_id |-> j, text |-> T_d]]
    /\ hashes = [j \in 1..MaxDocs |->
                    [doc_id |-> j, content_hash |-> ContentHash(T_d)]]
    /\ lock = NoProc
    /\ now = 0
    /\ nextId = MaxDocs
    /\ pc = [p \in Procs |-> "fuse"]
    /\ ret = [p \in Procs |-> NoCall]

\* _rrf_fuse(vector_results, fts_results, vector_weight, fts_weight, n_results)
Fuse(p) ==
    /\ pc[p] = "fuse"
    /\ LET l == loc[p]
           all_ids == {l.vector_results[j].id : j \in 1..Len(l.vector_results)}
                        \cup {l.fts_results[j].id : j \in 1..Len(l.fts_results)}
       IN  \E order \in Orderings(all_ids) :
              ret' = Returned(p, l @@
                        [scored |-> RrfScored(l.vector_results, l.fts_results,
                                              l.vw, l.fw, order),
                         value |-> _rrf_fuse(l.vector_results, l.fts_results,
                                             l.vw, l.fw, l.n_results, order)])
    /\ pc' = At(p, "idle")
    /\ loc' = [loc EXCEPT ![p] = NoCall]
    /\ UNCHANGED <<coll, fts, hashes, lock, now, nextId>>

FuseNext == \E p \in Procs : Fuse(p)

FuseSpec == FuseInit /\ [][FuseNext]_vars

\* ---- _llm_rerank on its own

\* What the reranking model can do: fail in each way, or answer with ratings,
\* too few, too many or as many as asked, some beyond a float.
KRerank ==
    [failures |-> {"no_model", "raises", "unparseable"},
     ratings |-> {0, 5, HugeRating}, miscounts |-> {0 - 1, 0, 1}]

\* The fused candidates search() passes on: n records with falling scores, or
\* all with the same score.
Candidates(n, tied) ==
    LET ranked == VectorOnly([j \in 1..n |-> [id |-> j, key |-> j]])
    IN  [j \in 1..n |->
            IF tied THEN [ranked[j] EXCEPT !.rrf_score = ranked[1].rrf_score,
                                           !.key = ranked[1].key]
            ELSE ranked[j]]

\* search() is about to call _llm_rerank with its trimmed results.
RerankInit ==
    /\ \E n \in {1, 2, MaxCands}, tied \in BOOLEAN :
          /\ coll = [i \in 1..n |-> DocRecord]
          /\ fts = [j \in 1..n |-> [doc_id |-> j, text |-> T_d]]
          /\ hashes = [j \in 1..n |->
                          [doc_id |-> j, content_hash |-> ContentHash(T_d)]]
          /\ nextId = n
          /\ loc = [p \in Procs |->
                       IF p = "p1"
                       THEN [op |-> "rerank", candidates |-> Candidates(n, tied)]
                       ELSE NoCall]
    /\ lock = NoProc
    /\ now = 0
    /\ pc = [p \in Procs |-> IF p = "p1" THEN "rerank" ELSE "idle"]
    /\ ret = [p \in Procs |-> NoCall]

\* _llm_rerank(query, candidates), the model answering one way or another
Rerank(p) ==
    /\ pc[p] = "rerank"
    /\ \E answer \in Ratings(loc[p].candidates, TRUE, KRerank) :
          ret' = Returned(p, loc[p] @@
                    [answer |-> answer,
                     value |-> _llm_rerank(loc[p].candidates, answer)])
    /\ pc' = At(p, "idle")
    /\ loc' = [loc EXCEPT ![p] = NoCall]
    /\ UNCHANGED <<coll, fts, hashes, lock, now, nextId>>

RerankNext == Rerank("p1")

RerankSpec == RerankInit /\ [][RerankNext]_vars

\* ------------------------------------------------------------ properties

\* The ids of the ledger rows that own the hash of text.
Owners(text) ==
    {hashes[j].doc_id : j \in {k \in 1..Len(hashes) :
                                  hashes[k].content_hash = ContentHash(text)}}

\* C1: a non-forced add(t, c) that follows a non-forced add(t, c) of the same
\* process returns the id the first one returned, and the collection holds as
\* many records after it as after the first.
C1_AddIdempotent ==
    [][\A p \in Procs :
         (/\ ret[p].op = "add" /\ ret'[p].op = "add" /\ ret'[p] # ret[p]
          /\ ~ret[p].force /\ ~ret'[p].force
          /\ ret'[p].text = ret[p].text /\ ret'[p].category = ret[p].category)
         => (ret'[p].value = ret[p].value /\ ret'[p].count = ret[p].count)]_vars

\* C1 witness: a non-forced add(t, c) has returned, without inserting, the id
\* of the record an earlier add(t, c) stored.
C1_Witness ==
    \E p \in Procs :
        /\ ret[p].op = "add" /\ ~ret[p].force /\ ~ret[p].inserted
        /\ ret[p].value \in Ids
        /\ coll[ret[p].value].text = ret[p].text
        /\ coll[ret[p].value].meta.category = ret[p].category

\* C9: a non-forced add whose trimmed, lowercased text is in the ledger when
\* it is called returns in that step an id that owns the hash, without an
\* embedding call and with the three stores unchanged; it never goes on to
\* the embedding.
C9_ExactHitNoWrite ==
    [][\A p \in Procs :
         /\ (/\ pc[p] = "idle" /\ pc'[p] # "idle"
             /\ loc'[p].op = "add" /\ ~loc'[p].force)
            => Owners(loc'[p].text) = {}
         /\ (/\ pc[p] = "idle" /\ pc'[p] = "idle" /\ ret'[p] # ret[p]
             /\ ret'[p].op = "add" /\ ~ret'[p].force
             /\ Owners(ret'[p].text) # {})
            => /\ ret'[p].value \in Owners(ret'[p].text)
               /\ ~ret'[p].embedded /\ ~ret'[p].inserted
               /\ UNCHANGED <<coll, fts, hashes, nextId>>]_vars

\* C9 witness: an exact-duplicate hit on a text that differs from the stored
\* one, passed with another category.
C9_Witness ==
    \E p \in Procs :
        /\ ret[p].op = "add" /\ ~ret[p].force /\ ~ret[p].embedded
        /\ ret[p].value \in Ids
        /\ coll[ret[p].value].text # ret[p].text
        /\ coll[ret[p].value].meta.category # ret[p].category

\* The similarity, in hundredths, of stored record i to an embedding.
SimTo(i, e) == 100 - CosDist(coll[i].emb, e)

\* Fewer than 3 stored records are nearer to e than record i.
AmongNearest3(i, e) ==
    Cardinality({j \in Ids : SimTo(j, e) > SimTo(i, e)}) < 3

\* C10: when the near-duplicate check of a non-forced add runs and a stored
\* record has similarity >= 0.95 to the new embedding, the add returns the id
\* of one of the 3 nearest records whose similarity is >= 0.95 and inserts
\* nothing; when the best similarity is in [0.88, 0.95) it warns and goes on
\* to insert a new record under a new id.
C10_NearDuplicate ==
    [][\A p \in Procs :
         /\ (pc[p] = "add_near" /\ pc'[p] # "add_near") =>
           LET e == _generate_embedding(loc[p].text)
               best == {i \in Ids : \A j \in Ids : SimTo(i, e) >= SimTo(j, e)}
           IN  /\ (\E i \in Ids : SimTo(i, e) >= 95) =>
                    /\ pc'[p] = "idle" /\ ret'[p].op = "add"
                    /\ ret'[p].value \in Ids
                    /\ SimTo(ret'[p].value, e) >= 95
                    /\ AmongNearest3(ret'[p].value, e)
                    /\ ~ret'[p].inserted
                    /\ UNCHANGED <<coll, fts, hashes, nextId>>
               /\ (\E i \in best : SimTo(i, e) >= 88 /\ SimTo(i, e) < 95) =>
                    /\ pc'[p] = "add_lock" /\ loc'[p].warned
                    /\ loc'[p].memory_id \notin Ids
                    /\ loc'[p].memory_id = nextId'
         /\ (pc[p] = "add_fts" /\ pc'[p] # "add_fts"
             /\ loc[p].op = "add" /\ loc[p].warned) =>
               /\ ret'[p].value = loc[p].memory_id /\ ret'[p].value \in Ids'
               /\ ret'[p].inserted /\ ret'[p].warned
               /\ Cardinality(Ids') = Cardinality(Ids)]_vars

\* C10 witness: a text at similarity exactly 0.95 was absorbed by a record
\* with another content hash.
C10_Witness ==
    \E p \in Procs :
        /\ ret[p].op = "add" /\ ~ret[p].force /\ ret[p].embedded /\ ~ret[p].inserted
        /\ ret[p].value \in Ids
        /\ SimTo(ret[p].value, _generate_embedding(ret[p].text)) = 95
        /\ coll[ret[p].value].meta.content_hash # ContentHash(ret[p].text)

\* A text at similarity 0.88 was inserted with a warning.
C10_WitnessWarn ==
    \E p \in Procs, i \in Ids :
        /\ ret[p].op = "add" /\ ret[p].warned /\ ret[p].inserted
        /\ i # ret[p].value
        /\ SimTo(i, _generate_embedding(ret[p].text)) = 88

\* Record i is stored in c with the retracted flag set.
Retracted(c, i) == i \in DOMAIN c /\ Get(c[i].meta, "retracted", FALSE) = TRUE

\* C3: when correct(id, text) returns new_id for a stored record id, the
\* original is retracted with replaced_by = new_id, and the record new_id is
\* stored with the corrected text, corrects_id = id and the category the
\* original had.
C3_CorrectPostcondition ==
    [][\A p \in Procs :
         (/\ ret'[p] # ret[p] /\ ret'[p].op = "correct"
          /\ ret'[p].error = "none")
         => LET id == ret'[p].memory_id
                new_id == ret'[p].value
            IN  /\ id \in DOMAIN coll' /\ new_id \in DOMAIN coll' /\ new_id # id
                /\ Retracted(coll', id)
                /\ Get(coll'[id].meta, "replaced_by", NoId) = new_id
                /\ Get(coll'[new_id].meta, "corrects_id", NoId) = id
                /\ coll'[new_id].text = ret'[p].text
                /\ id \in Ids
                /\ coll'[new_id].meta.category = coll[id].meta.category
                /\ coll'[id].meta.category = coll[id].meta.category]_vars

\* C3 witness: correct() has returned the id of a stored correction of a
\* stored original that was not retracted before.
C3_Witness ==
    \E p \in Procs :
        /\ pc[p] = "idle" /\ ret[p].op = "correct" /\ ret[p].error = "none"
        /\ ret[p].value \in Ids /\ ret[p].memory_id \in Ids
        /\ Retracted(coll, ret[p].memory_id)
        /\ ~Retracted(coll, ret[p].value)
        /\ coll[ret[p].value].meta.corrects_id = ret[p].memory_id

\* Process p takes the step in which its search() settles what it returns.
NewSearch(p) ==
    /\ pc[p] = "idle"
    /\ \/ pc'[p] = "touch_get"
       \/ pc'[p] = "idle" /\ ret'[p] # ret[p] /\ ret'[p].op = "search"

\* The call record of that search.
SearchOf(p) == IF pc'[p] = "touch_get" THEN loc'[p] ELSE ret'[p]

\* C6: a search without include_retracted returns no record that is stored
\* retracted; a search with include_retracted returns the fused list as it
\* is, the retracted records in it flagged retracted and no other.
C6_RetractedFilter ==
    [][\A p \in Procs :
         NewSearch(p) =>
           LET call == SearchOf(p)
               value == call.value
           IN  /\ ~call.include_retracted =>
                    \A j \in 1..Len(value) :
                        ~Retracted(coll, value[j].id) /\ ~value[j].retracted
               /\ call.include_retracted =>
                    /\ [j \in 1..Len(value) |-> value[j].id] = call.fused
                    /\ \A j \in 1..Len(value) :
                         value[j].retracted = Retracted(coll, value[j].id)]_vars

\* C6 witness: a default search has returned records, a retracted record of
\* the fused list not among them.
C6_Witness ==
    \E p \in Procs :
        /\ pc[p] = "idle" /\ ret[p].op = "search" /\ ~ret[p].include_retracted
        /\ ret[p].value # <<>>
        /\ \E j \in 1..Len(ret[p].fused) :
              /\ Retracted(coll, ret[p].fused[j])
              /\ \A k \in 1..Len(ret[p].value) : ret[p].value[k].id # ret[p].fused[j]

\* C6, second case reached: a search with include_retracted has returned a
\* retracted record, flagged, next to one that is not.
C6_WitnessFlagged ==
    \E p \in Procs :
        /\ pc[p] = "idle" /\ ret[p].op = "search" /\ ret[p].include_retracted
        /\ \E j, k \in 1..Len(ret[p].value) :
              /\ ret[p].value[j].retracted /\ Retracted(coll, ret[p].value[j].id)
              /\ ~ret[p].value[k].retracted

\* C7: a default search whose fused candidates hold at least n_results
\* records that are not retracted returns exactly n_results records.
C7_TruncateAfterFilter ==
    [][\A p \in Procs :
         NewSearch(p) =>
           LET call == SearchOf(p)
               live == {j \in 1..Len(call.candidates) :
                           ~Retracted(coll, call.candidates[j])}
           IN  (~call.include_retracted /\ Cardinality(live) >= call.n_results)
               => Len(call.value) = call.n_results]_vars

\* C4: with no call running, whenever a stored record has replaced_by = B, a
\* record B is stored and B's corrects_id is that record's id.
C4_LinkConsistency ==
    (\A p \in Procs : pc[p] = "idle") =>
        \A i \in Ids :
            "replaced_by" \in DOMAIN coll[i].meta =>
                LET B == coll[i].meta.replaced_by
                IN  B \in Ids /\ Get(coll[B].meta, "corrects_id", NoId) = i

\* C2: no two stored records have the same content_hash.
C2_OneOwnerPerHash ==
    \A i, j \in Ids :
        coll[i].meta.content_hash = coll[j].meta.content_hash => i = j

\* C5: while the lock is free, a stored record is retracted exactly when its
\* replaced_by is set, and the original of every stored correction, when it
\* is stored, is retracted.
C5_NoHalfCorrection ==
    lock = NoProc =>
        /\ \A i \in Ids :
              Retracted(coll, i) <=> "replaced_by" \in DOMAIN coll[i].meta
        /\ \A b \in Ids :
              ("corrects_id" \in DOMAIN coll[b].meta
                 /\ coll[b].meta.corrects_id \in Ids)
              => Retracted(coll, coll[b].meta.corrects_id)

C11_ForcedAddInserts ==
    [][\A p \in Procs :
         /\ (/\ pc[p] = "idle" /\ pc'[p] = "idle" /\ ret'[p] # ret[p]
             /\ ret'[p].op \in {"add", "lesson"})
            => ~ret'[p].force
         /\ (pc[p] = "idle" /\ pc'[p] # "idle" /\ loc'[p].force)
            => /\ pc'[p] = "add_lock"
               /\ loc'[p].memory_id \notin Ids
               /\ \A q \in Procs \ {p} :
                    pc[q] \in {"add_lock", "add_fts"}
                    => loc[q].memory_id # loc'[p].memory_id
         /\ (pc[p] = "add_lock" /\ pc'[p] = "add_fts" /\ loc[p].force)
            => /\ loc[p].memory_id \notin Ids
               /\ Ids' = Ids \cup {loc[p].memory_id}
               /\ coll'[loc[p].memory_id].text = loc[p].text
               /\ \A i \in Ids : coll'[i] = coll[i]
         /\ (pc[p] = "add_fts" /\ pc'[p] # "add_fts" /\ loc[p].force)
            => /\ loc[p].memory_id \in Ids' /\ Ids' = Ids
               /\ pc'[p] = "idle"
                  => ret'[p].value = loc[p].memory_id /\ ret'[p].inserted]_vars

\* C11 witness: a forced add has returned the id of the record it inserted
\* while another stored record has the same content hash.
C11_Witness ==
    \E p \in Procs :
        /\ pc[p] = "idle" /\ ret[p].op = "add" /\ ret[p].force /\ ret[p].inserted
        /\ ret[p].value \in Ids
        /\ \E i \in Ids \ {ret[p].value} :
              coll[i].meta.content_hash = ContentHash(ret[p].text)

\* C11, the callers of the forced add: correct() has stored a correction
\* whose text is the text of the original.
C11_WitnessCorrect ==
    \E p \in Procs :
        /\ pc[p] = "idle" /\ ret[p].op = "correct" /\ ret[p].error = "none"
        /\ ret[p].value \in Ids /\ ret[p].memory_id \in Ids
        /\ coll[ret[p].value].text = coll[ret[p].memory_id].text

\* Record id is in the vector index, the keyword index, the ledger.
InColl(id) == id \in Ids
InFts(id) == \E j \in 1..Len(fts) : fts[j].doc_id = id
InHashes(id) == \E j \in 1..Len(hashes) : hashes[j].doc_id = id

\* C12: when add() has returned an id or has raised after its last attempt,
\* the record it was inserting is in all three stores or in none.
C12_InsertionAtomic ==
    \A p \in Procs :
        (pc[p] = "idle" /\ ret[p].op = "add") =>
            LET id == Get(ret[p], "memory_id", ret[p].value)
            IN  \/ InColl(id) /\ InFts(id) /\ InHashes(id)
                \/ ~InColl(id) /\ ~InFts(id) /\ ~InHashes(id)

\* C13: an add() that has met a lock timeout does not try the locked section
\* again.
C13_LockTimeoutFatal ==
    \A p \in Procs :
        pc[p] = "add_lock" => Get(loc[p], "timeouts", 0) = 0

\* C14: a correct() that returns without calling add() has failed with
\* NotFound on an id no record has, and has changed nothing; a correct()
\* that goes on to its add() was called on a stored id.
C14_CorrectNotFound ==
    [][\A p \in Procs :
         /\ (/\ pc[p] = "idle" /\ pc'[p] = "idle" /\ ret'[p] # ret[p]
             /\ ret'[p].op = "correct")
            => /\ ret'[p].error = "NotFound" /\ ret'[p].value = NoId
               /\ ret'[p].memory_id \notin Ids
               /\ UNCHANGED <<coll, fts, hashes, lock, nextId>>
         /\ (pc[p] = "idle" /\ pc'[p] # "idle" /\ loc'[p].op = "correct")
            => loc'[p].target \in Ids]_vars

\* C14 witness: correct() has failed with NotFound on a store that holds
\* a record, none retracted and none a correction.
C14_Witness ==
    \E p \in Procs :
        /\ pc[p] = "idle" /\ ret[p].op = "correct" /\ ret[p].error = "NotFound"
        /\ ret[p].memory_id \notin Ids
        /\ Ids # {}
        /\ \A i \in Ids : /\ ~Retracted(coll, i)
                          /\ "corrects_id" \notin DOMAIN coll[i].meta

\* Process p takes the step in which its decay pass, begun on a store that
\* held records, returns.
DecayReturns(p) ==
    pc[p] \in {"decay_loop", "decay_fts"} /\ pc'[p] = "idle"

\* Of a decay pass with locals l: record i of its snapshot is not pinned and
\* was not accessed after the cutoff.
Stale(l, i) ==
    /\ Get(l.all_data[i].meta, "pinned", FALSE) = FALSE
    /\ ~(l.all_data[i].meta.last_accessed > l.cutoff)

\* The stale records of the pass whose lowered confidence is below the
\* threshold, and those whose lowered confidence is not.
Dropped(l) ==
    {i \in DOMAIN l.all_data :
        Stale(l, i) /\ l.all_data[i].meta.confidence - 10 < l.threshold}
Lowered(l) ==
    {i \in DOMAIN l.all_data :
        Stale(l, i) /\ l.all_data[i].meta.confidence - 10 >= l.threshold}

\* C15: when a decay(dry_run=False) pass returns, every stale record whose
\* confidence less 0.10 is below the threshold is gone from the three stores
\* and counted deleted, every other stale record has its confidence lowered
\* by 0.10, nothing else of it changed, and is counted decayed, and the
\* records that are not stale are as they were.
C15_DecayStep ==
    [][\A p \in Procs :
         (DecayReturns(p) /\ ~loc[p].dry_run) =>
           LET l == loc[p]
               snap == l.all_data
           IN  /\ \A i \in Dropped(l) :
                     /\ i \notin DOMAIN coll'
                     /\ \A j \in 1..Len(fts') : fts'[j].doc_id # i
                     /\ \A j \in 1..Len(hashes') : hashes'[j].doc_id # i
               /\ \A i \in Lowered(l) :
                     /\ i \in DOMAIN coll'
                     /\ coll'[i] = [snap[i] EXCEPT !.meta.confidence = @ - 10]
               /\ \A i \in DOMAIN snap \ (Dropped(l) \cup Lowered(l)) :
                     i \in DOMAIN coll' /\ coll'[i] = snap[i]
               /\ ret'[p].deleted = Cardinality(Dropped(l))
               /\ ret'[p].decayed = Cardinality(Lowered(l))]_vars

\* C15 witness: a pass with threshold 0.15 has deleted from the collection a
\* record whose confidence was 0.20.
C15_Witness ==
    \E p \in Procs :
        /\ pc[p] = "decay_fts" /\ ~loc[p].dry_run /\ loc[p].threshold = 15
        /\ \E i \in loc[p].delete_ids :
              /\ loc[p].all_data[i].meta.confidence = 20
              /\ ~Get(loc[p].all_data[i].meta, "pinned", FALSE)
              /\ i \notin Ids

\* C16: no step of a decay(dry_run=True) pass changes the collection, the
\* keyword index or the ledger, the pass never reaches the batch delete, and
\* the counts it returns are those of a real pass: the stale records below
\* the threshold after the decrement as deleted, the other stale records as
\* decayed, the pinned as protected, the rest as skipped.
C16_DryRunPure ==
    [][\A p \in Procs :
         /\ (pc[p] \in {"decay_loop", "decay_del", "decay_fts"} /\ loc[p].dry_run)
            => /\ UNCHANGED <<coll, fts, hashes>>
               /\ pc'[p] \in {"decay_loop", "idle"}
         /\ (pc[p] = "idle" /\ pc'[p] = "decay_loop" /\ loc'[p].dry_run)
            => UNCHANGED <<coll, fts, hashes>> /\ loc'[p].all_data = coll
         /\ (DecayReturns(p) /\ loc[p].dry_run)
            => LET l == loc[p]
                   pinned == {i \in DOMAIN l.all_data :
                                 Get(l.all_data[i].meta, "pinned", FALSE)}
               IN  /\ ret'[p].deleted = Cardinality(Dropped(l))
                   /\ ret'[p].decayed = Cardinality(Lowered(l))
                   /\ ret'[p].protected = Cardinality(pinned)
                   /\ ret'[p].skipped =
                        Cardinality(DOMAIN l.all_data) - Cardinality(pinned)
                          - Cardinality(Dropped(l)) - Cardinality(Lowered(l))
                   /\ ret'[p].total_evaluated = Cardinality(DOMAIN l.all_data)
                   /\ coll' = l.all_data]_vars

\* C16 witness: a dry run has returned counting a record as deleted, and
\* the record is stored with the confidence it had.
C16_Witness ==
    \E p \in Procs :
        /\ pc[p] = "idle" /\ ret[p].op = "decay" /\ ret[p].dry_run
        /\ Get(ret[p], "total_evaluated", 0) = Count
        /\ ret[p].deleted >= 1
        /\ \E i \in Ids : coll[i].meta.confidence - 10 < ret[p].threshold
                          /\ ~Get(coll[i].meta, "pinned", FALSE)

\* C17: no step changes or removes a stored record that is pinned, nor its
\* rows in the keyword index and the ledger, and a decay pass counts every
\* pinned record of its snapshot as protected.
C17_PinProtection ==
    [][/\ \A i \in Ids :
            Get(coll[i].meta, "pinned", FALSE) =>
               /\ i \in DOMAIN coll' /\ coll'[i] = coll[i]
               /\ InFts(i) => \E j \in 1..Len(fts') : fts'[j].doc_id = i
               /\ InHashes(i) => \E j \in 1..Len(hashes') : hashes'[j].doc_id = i
       /\ \A p \in Procs :
            DecayReturns(p) =>
               ret'[p].protected =
                  Cardinality({i \in DOMAIN loc[p].all_data :
                                  Get(loc[p].all_data[i].meta, "pinned", FALSE)})]_vars

\* C17 witness: a real pass with threshold 0.15 and age_days 0 has returned,
\* counting as protected a pinned record of confidence 0.20 that is stored.
C17_Witness ==
    \E p \in Procs :
        /\ pc[p] = "idle" /\ ret[p].op = "decay" /\ ~ret[p].dry_run
        /\ ret[p].threshold = 15 /\ ret[p].age_days = 0
        /\ ret[p].protected >= 1
        /\ \E i \in Ids : /\ Get(coll[i].meta, "pinned", FALSE)
                          /\ coll[i].meta.confidence = 20
                          /\ coll[i].meta.last_accessed < now

\* C18: the confidence of every stored record is between 0 and 1.
C18_ConfidenceRange ==
    \A i \in Ids :
        coll[i].meta.confidence >= 0 /\ coll[i].meta.confidence <= 100

\* C19: a search(query, n_results=k) returns at most k records.
C19_BoundedResults ==
    [][\A p \in Procs :
         NewSearch(p) => Len(SearchOf(p).value) <= SearchOf(p).n_results]_vars

\* C19 witness: a reranked search for one record has returned one record
\* while two stored records match the query in both indexes.
C19_Witness ==
    \E p \in Procs :
        /\ pc[p] = "idle" /\ ret[p].op = "search" /\ ret[p].rerank
        /\ ret[p].n_results = 1 /\ Len(ret[p].value) = 1
        /\ Len(ret[p].candidates) >= 2
        /\ Cardinality({i \in Ids :
              /\ InFts(i)
              /\ Tokens(coll[i].text, 1) \cap Tokens(ret[p].query, 2) # {}}) >= 2

\* The ids of the records a search returns.
ResultIds(call) == {call.value[j].id : j \in 1..Len(call.value)}

IdsOf(res) == {res[j].id : j \in 1..Len(res)}

\* The rank from 0 of id in res, found by position.
PlaceOf(res, id) ==
    IF id \in IdsOf(res) THEN (CHOOSE j \in 1..Len(res) : res[j].id = id) - 1
    ELSE Len(res) + 100

\* score, in millionths, is the nearest to vw / (60 + vr) + fw / (60 + fr),
\* the weights in tenths.
IsRrfScore(score, vw, fw, vr, fr) ==
    2 * Abs(score * (60 + vr) * (60 + fr) - 100000 * (vw * (60 + fr) + fw * (60 + vr)))
        <= (60 + vr) * (60 + fr)

ScoreOf(scored, id) == (CHOOSE e \in SeqRange(scored) : e.id = id).rrf_score

FuseExample(r) ==
    /\ [j \in 1..Len(r.vector_results) |-> r.vector_results[j].id] = <<1, 2, 3>>
    /\ [j \in 1..Len(r.fts_results) |-> r.fts_results[j].id] = <<2, 1>>
    /\ r.vw = 5
    /\ r.fw = 5

C21_Fusion ==
    LET r == ret["p1"]
    IN  r.op = "fuse" =>
          /\ IdsOf(r.scored) = IdsOf(r.vector_results)
                                  \cup (IdsOf(r.fts_results) \cap Ids)
          /\ Len(r.scored) = Cardinality(IdsOf(r.scored))
          /\ \A e \in SeqRange(r.scored) :
                IsRrfScore(e.rrf_score, r.vw, r.fw,
                           PlaceOf(r.vector_results, e.id), PlaceOf(r.fts_results, e.id))
          /\ \A j, k \in 1..Len(r.scored) :
                j < k => r.scored[j].rrf_score >= r.scored[k].rrf_score
          /\ r.value = SubSeq(r.scored, 1, Min(r.n_results, Len(r.scored)))
          /\ FuseExample(r) /\ 3 \in Ids =>
                /\ ScoreOf(r.scored, 1) = ScoreOf(r.scored, 2)
                /\ ScoreOf(r.scored, 2) > ScoreOf(r.scored, 3)

\* The example's lists have been fused, d3 scored with its missing rank.
C21_Witness ==
    LET r == ret["p1"]
    IN  /\ r.op = "fuse"
        /\ FuseExample(r)
        /\ Len(r.scored) = 3
        /\ r.scored[3].id = 3

\* C21 as stated: every id present in either source list appears in the
\* fused list.
C21_EveryIdFused ==
    LET r == ret["p1"]
    IN  r.op = "fuse" =>
          IdsOf(r.scored) = IdsOf(r.vector_results) \cup IdsOf(r.fts_results)

\* ---- C22
\* search(query, category=c) returns only records whose category is c.
C22_CategoryFilter ==
    \A p \in Procs :
        ret[p].op = "search" /\ ret[p].category # "" =>
            \A m \in SeqRange(ret[p].value) :
                m.id \in Ids => Get(coll[m.id].meta, "category", "") = ret[p].category

\* The reranking did not succeed: no model, an exception of the model call,
\* no usable list, a list of another length than the candidates sent, or an
\* exception when the ratings are blended.
RerankFailed(r) ==
    \/ r.answer.kind # "list"
    \/ Len(r.answer.ratings) # Min(Len(r.candidates), top_n)
    \/ \E j \in 1..Len(r.answer.ratings) : Overflows(r.answer.ratings[j])

\* ---- C23
\* On any failure _llm_rerank returns the input candidate list unchanged:
\* same records, same order, no score fields altered.
C23_RerankFailSafe ==
    LET r == ret["p1"]
    IN  r.op = "rerank" /\ RerankFailed(r) => r.value = r.candidates

C24_WitnessRaised ==
    \E p \in Procs :
        /\ ret[p].op = "add" /\ ret[p].value = NoId
        /\ ret[p].attempts = 3

C25_FuseDeterministic ==
    ret["p1"].op = "fuse" /\ ret["p2"].op = "fuse" =>
        [j \in 1..Len(ret["p1"].value) |-> ret["p1"].value[j].id]
          = [j \in 1..Len(ret["p2"].value) |-> ret["p2"].value[j].id]

\* ---- C26
\* On success _llm_rerank returns a permutation of its candidates: each of
\* the first top_n has got rerank_score = 0.5 x its fused score + 0.5 x
\* (its rating / 5), rounded to 6 places, and they are sorted by rerank_score,
\* highest first; the candidates beyond top_n follow as they were, in their
\* order and without a rerank_score.
PositionIn(candidates, id) == CHOOSE j \in 1..Len(candidates) : candidates[j].id = id

\* score, in millionths, is the nearest to (rrf_score + rating / 5) / 2
IsBlend(score, rrf_score, rating) ==
    Abs(2 * score - (rrf_score + 200000 * rating)) <= 1

C26_RerankBlend ==
    LET r == ret["p1"]
        n == Min(Len(r.candidates), 10)
    IN  r.op = "rerank" /\ ~RerankFailed(r) =>
          /\ Len(r.value) = Len(r.candidates)
          /\ IdsOf(r.value) = IdsOf(r.candidates)
          /\ \A j \in 1..n :
                LET i == PositionIn(r.candidates, r.value[j].id)
                IN  /\ i <= n
                    /\ r.value[j].rrf_score = r.candidates[i].rrf_score
                    /\ "rerank_score" \in DOMAIN r.value[j]
                    /\ IsBlend(r.value[j].rerank_score, r.candidates[i].rrf_score,
                               r.answer.ratings[i])
          /\ \A j, k \in 1..n :
                j < k => r.value[j].rerank_score >= r.value[k].rerank_score
          /\ \A j \in (n + 1)..Len(r.candidates) :
                /\ r.value[j] = r.candidates[j]
                /\ "rerank_score" \notin DOMAIN r.value[j]

\* Eleven candidates have been reranked: the tenth is now first and the
\* eleventh is where it was.
C26_Witness ==
    LET r == ret["p1"]
    IN  /\ r.op = "rerank" /\ ~RerankFailed(r)
        /\ Len(r.candidates) = 11
        /\ r.value[1].id = 10
        /\ r.value[11].id = 11

\* ---- C27
\* lesson() is a pure append: it returns only after it has added exactly one
\* record, whose text is "LESSON: {text}", plus " | MISTAKE: {mistake}" when
\* a mistake is given, with is_lesson = true, in the category given and not
\* retracted, through add() that runs no duplicate check; no step of it
\* changes or removes an existing record.
C27_LessonAppends ==
    [][\A p \in Procs :
          /\ ret'[p] # ret[p] /\ ret'[p].op = "lesson" =>
                /\ pc[p] = "add_fts"
                /\ ret'[p].inserted
                /\ ret'[p].value = loc[p].memory_id
          /\ Idle(p) /\ pc'[p] = "add_lock" /\ loc'[p].op = "lesson" =>
                /\ store' = store
                /\ loc'[p].force
                /\ loc'[p].memory_id \notin Ids
          /\ pc[p] = "add_lock" /\ pc'[p] = "add_fts" /\ loc[p].op = "lesson" =>
                LET id == loc[p].memory_id
                    text == loc[p].lesson
                    mistake == loc[p].lesson_mistake
                IN  /\ DOMAIN coll' = DOMAIN coll \cup {id}
                    /\ \A i \in DOMAIN coll : coll'[i] = coll[i]
                    /\ coll'[id].text =
                          <<"L", ":", " ">> \o text \o
                          (IF mistake = <<>> THEN <<>>
                           ELSE <<" ", "|", " ", "M", ":", " ">> \o mistake)
                    /\ coll'[id].meta.is_lesson
                    /\ ("mistake" \in DOMAIN coll'[id].meta) = (mistake # <<>>)
                    /\ mistake # <<>> => coll'[id].meta.mistake = mistake
                    /\ coll'[id].meta.category = loc[p].category
                    /\ ~Retracted(coll', id)
                    /\ fts' = fts /\ hashes' = hashes
          /\ pc[p] = "add_fts" /\ pc'[p] = "idle" /\ loc[p].op = "lesson" =>
                /\ coll' = coll
                /\ fts' = Append(fts, [doc_id |-> loc[p].memory_id,
                                       text |-> coll[loc[p].memory_id].text])
                /\ Len(hashes') = Len(hashes) + 1
                /\ SubSeq(hashes', 1, Len(hashes)) = hashes
                /\ hashes'[Len(hashes')].doc_id = loc[p].memory_id]_vars

\* A lesson with a mistake has been appended to a store that held a record.
C27_Witness ==
    \E p \in Procs :
        /\ ret[p].op = "lesson" /\ ret[p].inserted
        /\ Count = 2
        /\ "mistake" \in DOMAIN coll[ret[p].value].meta
        /\ \E i \in Ids : "is_lesson" \notin DOMAIN coll[i].meta

\* ---- C28
\* Between calls the vector index, the keyword index and the content-hash
\* ledger hold the same ids, and every ledger row holds the hash of the text
\* of a stored record; a non-forced add() that returns an existing id for an
\* exact duplicate returns the id of a stored record of that content.
FtsIds == {fts[j].doc_id : j \in 1..Len(fts)}

HashIds == {hashes[j].doc_id : j \in 1..Len(hashes)}

C28_IndexConsistency ==
    (\A p \in Procs : pc[p] = "idle") =>
        /\ Ids = FtsIds
        /\ Ids = HashIds
        /\ \A j \in 1..Len(hashes) :
              /\ hashes[j].doc_id \in Ids
              /\ hashes[j].content_hash = ContentHash(coll[hashes[j].doc_id].text)
        /\ \A p \in Procs :
              ret[p].op = "add" /\ ~ret[p].force /\ ~ret[p].inserted =>
                  /\ ret[p].value \in Ids
                  /\ ~ret[p].embedded =>
                        ContentHash(coll[ret[p].value].text) = ContentHash(ret[p].text)

\* A non-forced add() has inserted the second record of the run into a store
\* that is otherwise empty: the first record has been deleted, cleared or
\* evicted, and the three indexes hold the new id only.
C28_Witness ==
    \E p \in Procs :
        /\ pc[p] = "idle"
        /\ ret[p].op = "add" /\ ~ret[p].force /\ ret[p].inserted
        /\ ret[p].value = 2
        /\ Ids = {2} /\ FtsIds = {2} /\ HashIds = {2}

\* ---- C29
\* No step of a decay pass deletes, or changes last_accessed or access_count
\* of, a record whose last_accessed is, as the step is taken, more recent
\* than the cutoff of the pass.
C29_DecaySparesFresh ==
    [][\A p \in Procs :
          /\ pc[p] \in {"decay_loop", "decay_del"}
          /\ pc'[p] # pc[p] \/ loc'[p] # loc[p]
          => \A i \in Ids :
                Get(coll[i].meta, "last_accessed", 0) > loc[p].cutoff =>
                    /\ i \in DOMAIN coll'
                    /\ Get(coll'[i].meta, "last_accessed", 0)
                          = Get(coll[i].meta, "last_accessed", 0)
                    /\ Get(coll'[i].meta, "access_count", 0)
                          = Get(coll[i].meta, "access_count", 0)]_vars

\* ---- C30
\* With the default threshold 0.15 a record that is not pinned, starts with
\* confidence 1.0 and is stale in every decay pass is stored with 0.9, 0.8,
\* ..., 0.2 by eight passes and deleted by the ninth: its confidence is one
\* of 1.0, 0.9, ..., 0.2, a pass lowers it by 0.1, it is removed only from
\* 0.2, and as long as no search returns it it is eventually removed.  This
\* includes retracted records.
Confidence(i) == Get(coll[i].meta, "confidence", 100)

Untouched(i) == InColl(i) /\ Get(coll[i].meta, "access_count", 0) = 0

====
